---- MODULE Spec2Model ----
(***************************************************************************)
(* State-machine model of bot.py: the singleton lock taken at start-up,    *)
(* the sqlite table `expenses`, and the Telegram handlers that read and    *)
(* write it.                                                               *)
(*                                                                         *)
(* Text is a sequence of one-character strings, so that strip, split,      *)
(* lower, the amount regular expression and the TEXT comparison of         *)
(* timestamps are computed character by character as the code does.        *)
(* A REAL amount is kept as an exact decimal, counted in units of          *)
(* 1/Scale; the inputs are bounded so that no digit is lost.               *)
(***************************************************************************)
EXTENDS Integers, Sequences, FiniteSets, TLC

\* ------------------------------------------------------------------ bounds
\* longest amount token explored by ParseSpec
MaxTokenLen == 4
\* largest value the AUTOINCREMENT sequence reaches
MaxId == 3
\* days of the month the clock visits (day 1 is a Monday)
MaxDay == 2
\* seconds after midnight the clock visits
MaxSec == 1
\* bot processes started against the same data directory
NumProcs == 2
\* unanswered /clear confirmation keyboards
MaxPrompts == 1

\* ------------------------------------------------------------- characters
Digits == <<"0", "1", "2", "3", "4", "5", "6", "7", "8", "9">>
UpperChars == <<"A", "B", "C", "D", "E", "F", "G", "H", "I", "J", "K", "L", "M",
                "N", "O", "P", "Q", "R", "S", "T", "U", "V", "W", "X", "Y", "Z">>
LowerChars == <<"a", "b", "c", "d", "e", "f", "g", "h", "i", "j", "k", "l", "m",
                "n", "o", "p", "q", "r", "s", "t", "u", "v", "w", "x", "y", "z">>
Whitespace == {" ", "\t", "\n"}

Range(s) == {s[i] : i \in 1..Len(s)}
IndexOf(s, c) == CHOOSE i \in 1..Len(s) : s[i] = c
DigitChars == Range(Digits)
DigitValues == [c \in DigitChars |-> IndexOf(Digits, c) - 1]
IsDigitChar(c) == c \in DigitChars
DigitVal(c) == DigitValues[c]
Min(a, b) == IF a <= b THEN a ELSE b

\* 10^n
RECURSIVE Pow10(_)
Pow10(n) == IF n = 0 THEN 1 ELSE 10 * Pow10(n - 1)

\* a token of MaxTokenLen characters has at most MaxTokenLen - 2 fractional digits
FracDigits == MaxTokenLen - 2
Scale == Pow10(FracDigits)

\* ------------------------------------------------------------ str methods
\* str.lower(), one character
LowerOf == [c \in Range(UpperChars) |-> LowerChars[IndexOf(UpperChars, c)]]
LowerChar(c) == IF c \in DOMAIN LowerOf THEN LowerOf[c] ELSE c
\* str.lower()
lower(s) == [i \in 1..Len(s) |-> LowerChar(s[i])]

RECURSIVE lstrip(_)
lstrip(s) == IF s # <<>> /\ Head(s) \in Whitespace THEN lstrip(Tail(s)) ELSE s
RECURSIVE rstrip(_)
rstrip(s) ==
  IF s # <<>> /\ s[Len(s)] \in Whitespace THEN rstrip(SubSeq(s, 1, Len(s) - 1)) ELSE s
\* str.strip()
strip(s) == rstrip(lstrip(s))

\* length of the leading run of non-whitespace characters
RECURSIVE WordLen(_)
WordLen(s) == IF s = <<>> \/ Head(s) \in Whitespace THEN 0 ELSE 1 + WordLen(Tail(s))

\* str.split(None, 2): at most two splits on runs of whitespace; the third
\* field is the remainder with its leading whitespace removed
split_none_2(text) ==
  LET s0 == lstrip(text)
      n1 == WordLen(s0)
      r1 == lstrip(SubSeq(s0, n1 + 1, Len(s0)))
      n2 == WordLen(r1)
      r2 == lstrip(SubSeq(r1, n2 + 1, Len(r1)))
  IN  IF s0 = <<>> THEN <<>>
      ELSE IF r1 = <<>> THEN <<SubSeq(s0, 1, n1)>>
      ELSE IF r2 = <<>> THEN <<SubSeq(s0, 1, n1), SubSeq(r1, 1, n2)>>
      ELSE <<SubSeq(s0, 1, n1), SubSeq(r1, 1, n2), r2>>

\* str.replace(c, ""): every occurrence of the character removed
RECURSIVE remove_char(_, _)
remove_char(s, c) ==
  IF s = <<>> THEN <<>>
  ELSE IF Head(s) = c THEN remove_char(Tail(s), c)
  ELSE <<Head(s)>> \o remove_char(Tail(s), c)

\* ------------------------------------------------------------ _amount_re
\* number of consecutive digits of s starting at position i
RECURSIVE DigitRun(_, _)
DigitRun(s, i) == IF i <= Len(s) /\ IsDigitChar(s[i]) THEN 1 + DigitRun(s, i + 1) ELSE 0

IsAt(s, i, c) == i <= Len(s) /\ s[i] = c

\* (?:,\d{3})* from position i, greedy: the position after the last group
RECURSIVE CommaGroups(_, _)
CommaGroups(s, i) ==
  IF IsAt(s, i, ",") /\ DigitRun(s, i + 1) >= 3 THEN CommaGroups(s, i + 4) ELSE i

\* (?:\.\d+)? from position i, greedy: the position after the fraction
Fraction(s, i) ==
  IF IsAt(s, i, ".") /\ DigitRun(s, i + 1) >= 1 THEN i + 1 + DigitRun(s, i + 1) ELSE i

\* \d{1,3}(?:,\d{3})*(?:\.\d+)? from position i: the position after the match,
\* 0 when there is none. Every part after \d{1,3} may match empty, so the
\* greedy choice never has to be undone.
Alt1Body(s, i) ==
  IF DigitRun(s, i) = 0 THEN 0
  ELSE Fraction(s, CommaGroups(s, i + Min(3, DigitRun(s, i))))

\* \d+(?:\.\d+)? from position i
Alt2Body(s, i) ==
  IF DigitRun(s, i) = 0 THEN 0 ELSE Fraction(s, i + DigitRun(s, i))

\* [-+]? in front of a body: with the sign first, then without it
WithSign(s, i, withSign, without) ==
  IF (IsAt(s, i, "-") \/ IsAt(s, i, "+")) /\ withSign # 0 THEN withSign ELSE without

\* the pattern tried at position i: the first alternative, then the second
MatchAt(s, i) ==
  LET a1 == WithSign(s, i, Alt1Body(s, i + 1), Alt1Body(s, i))
      a2 == WithSign(s, i, Alt2Body(s, i + 1), Alt2Body(s, i))
  IN  IF a1 # 0 THEN a1 ELSE a2

\* _amount_re.search(s): the leftmost position with a match; m.group(0), or
\* <<>> standing for None (a match is never empty)
amount_re_search(s) ==
  LET hits == {i \in 1..Len(s) : MatchAt(s, i) # 0}
  IN  IF hits = {} THEN <<>>
      ELSE LET i == CHOOSE h \in hits : \A g \in hits : h <= g
           IN  SubSeq(s, i, MatchAt(s, i) - 1)

\* digits read as a decimal integer
RECURSIVE DigitsValue(_)
DigitsValue(ds) ==
  IF ds = <<>> THEN 0 ELSE 10 * DigitsValue(SubSeq(ds, 1, Len(ds) - 1)) + DigitVal(ds[Len(ds)])

\* float(g) for g matching [-+]?\d+(\.\d+)?, in units of 1/Scale
float(g) ==
  LET neg  == IsAt(g, 1, "-")
      body == IF IsAt(g, 1, "-") \/ IsAt(g, 1, "+") THEN Tail(g) ELSE g
      n    == DigitRun(body, 1)
      frac == SubSeq(body, n + 2, Len(body))
      mag  == DigitsValue(SubSeq(body, 1, n)) * Scale
              + DigitsValue(frac) * Pow10(FracDigits - Len(frac))
  IN  IF neg THEN 0 - mag ELSE mag

ValueError == [error |-> "ValueError"]

\* parse_amount(token): the number, or the ValueError it raises
parse_amount(token) ==
  LET g == amount_re_search(remove_char(token, "$"))
  IN  IF g = <<>> THEN ValueError ELSE [value |-> float(remove_char(g, ","))]

IsError(r) == r = ValueError

\* int(s) of delete_command: an optional sign and decimal digits, else ValueError
int(s) ==
  LET body == IF IsAt(s, 1, "-") \/ IsAt(s, 1, "+") THEN Tail(s) ELSE s
  IN  IF body = <<>> \/ DigitRun(body, 1) # Len(body) THEN ValueError
      ELSE [value |-> IF IsAt(s, 1, "-") THEN 0 - DigitsValue(body) ELSE DigitsValue(body)]

\* ------------------------------------------------------------------ time
\* datetime values the clock visits: a day of one month and a second of it
Times == [day : 1..MaxDay, sec : 0..MaxSec]
Before(a, b) == a.day < b.day \/ (a.day = b.day /\ a.sec < b.sec)
NotAfter(a, b) == a = b \/ Before(a, b)

TwoDigits(n) == <<Digits[(n \div 10) + 1], Digits[(n % 10) + 1]>>
\* dt.strftime("%Y-%m-%d %H:%M:%S"), the fields that vary: "DD SS"
strftime(dt) == TwoDigits(dt.day) \o <<" ">> \o TwoDigits(dt.sec)

\* n.replace(hour=0, minute=0, second=0, microsecond=0)
midnight(dt) == [day |-> dt.day, sec |-> 0]
\* n.weekday(), Monday = 0; day 1 of the month is a Monday
weekday(dt) == (dt.day - 1) % 7
\* n - timedelta(days=n.weekday()), inside the month
minus_days(dt, k) == [day |-> dt.day - k, sec |-> dt.sec]
\* n.replace(day=1, hour=0, minute=0, second=0, microsecond=0)
first_of_month(dt) == [day |-> 1, sec |-> 0]

\* byte order of the characters that occur (sqlite compares TEXT with memcmp)
ByteOrder == <<"\t", "\n", " ", "$", "+", ",", "-", ".">> \o Digits \o UpperChars \o LowerChars
ByteRank == [c \in Range(ByteOrder) |-> IndexOf(ByteOrder, c)]
RECURSIVE text_le(_, _)
\* a <= b for TEXT values under the BINARY collation
text_le(a, b) ==
  IF a = <<>> THEN TRUE
  ELSE IF b = <<>> THEN FALSE
  ELSE IF Head(a) = Head(b) THEN text_le(Tail(a), Tail(b))
  ELSE ByteRank[Head(a)] < ByteRank[Head(b)]

between_exclusive(x, lo, hi) == text_le(lo, x) /\ text_le(x, hi) /\ x # lo /\ x # hi
\* x BETWEEN lo AND hi
between(x, lo, hi) == text_le(lo, x) /\ text_le(x, hi)

\* ----------------------------------------------------------------- state
Procs == 1..NumProcs

VARIABLES
  pc,          \* where each process is in main()
  lockHolder,  \* the process holding flock on bot.lock, 0 when none
  lockFile,    \* content of bot.lock: the pid written last, 0 when empty
  tableExists, \* expenses has been created in expenses.db
  rows,        \* the rows of expenses, in rowid order
  seq,         \* sqlite_sequence for expenses: the largest rowid ever given
  now,         \* datetime.now()
  prompts,     \* /clear confirmation keyboards not yet answered
  reply,       \* what the last handler run answered
  issued,      \* every exp_id log_expense_to_db has returned
  amountToken,       \* ParseSpec: the amount token under test
  parsed       \* ParseSpec: what parse_amount made of it

vars == <<pc, lockHolder, lockFile, tableExists, rows, seq, now, prompts, reply,
          issued, amountToken, parsed>>
procVars == <<pc, lockHolder, lockFile, tableExists>>
parseVars == <<amountToken, parsed>>

\* ------------------------------------------------------- the table, sqlite
RECURSIVE MaxRowId(_)
MaxRowId(table) ==
  IF table = <<>> THEN 0
  ELSE LET m == MaxRowId(Tail(table)) IN IF Head(table).id > m THEN Head(table).id ELSE m

rowid_max_plus_one(table, sequence) == MaxRowId(table) + 1
\* INTEGER PRIMARY KEY AUTOINCREMENT: one more than the largest rowid the
\* table has ever held, which sqlite_sequence remembers across deletes
autoincrement_rowid(table, sequence) ==
  (IF sequence > MaxRowId(table) THEN sequence ELSE MaxRowId(table)) + 1

\* the row log_expense_to_db inserts (user, name, payment_method and
\* account_type are the same in every row and are left out)
log_expense_to_db(table, exp_id, category_lower, amount, note, stamp) ==
  Append(table, [id |-> exp_id, timestamp |-> stamp, entry_type |-> "Expense",
                 amount |-> amount, category |-> category_lower, note |-> note])

\* SUM(amount) over the rows selected
RECURSIVE SumAmount(_)
SumAmount(table) == IF table = <<>> THEN 0 ELSE Head(table).amount + SumAmount(Tail(table))

\* SELECT category, SUM(amount) ... GROUP BY category over the rows selected:
\* one (category, sum) pair per distinct stored category
GroupByCategory(table) ==
  {<<c, SumAmount(SelectSeq(table, LAMBDA r : r.category = c))>> :
     c \in {table[i].category : i \in 1..Len(table)}}

\* the orders in which fetchall() may return a result set with no ORDER BY
Orderings(S) ==
  {f \in [1..Cardinality(S) -> S] : \A i, j \in 1..Cardinality(S) : i # j => f[i] # f[j]}

get_totals_all_open_window(table, start_dt, end_dt) ==
  IF start_dt # <<>> /\ end_dt # <<>>
  THEN GroupByCategory(SelectSeq(table, LAMBDA r :
         between_exclusive(r.timestamp, start_dt, end_dt) /\ r.entry_type = "Expense"))
  ELSE GroupByCategory(SelectSeq(table, LAMBDA r : r.entry_type = "Expense"))

\* get_totals_all(start_dt, end_dt); <<>> stands for None
get_totals_all(table, start_dt, end_dt) ==
  IF start_dt # <<>> /\ end_dt # <<>>
  THEN GroupByCategory(SelectSeq(table, LAMBDA r :
         between(r.timestamp, start_dt, end_dt) /\ r.entry_type = "Expense"))
  ELSE GroupByCategory(SelectSeq(table, LAMBDA r : r.entry_type = "Expense"))

\* get_categories_with_sums_all(): the groups, ORDER BY SUM(amount) DESC
get_categories_with_sums_all(table) ==
  {f \in Orderings(GroupByCategory(SelectSeq(table, LAMBDA r : r.entry_type = "Expense"))) :
     \A i \in 1..(Len(f) - 1) : f[i][2] >= f[i + 1][2]}

\* get_category_sum_all(category_lower): LOWER(category) = ?
get_category_sum_all(table, category_lower) ==
  SumAmount(SelectSeq(table, LAMBDA r :
    r.entry_type = "Expense" /\ lower(r.category) = category_lower))

\* DELETE FROM expenses WHERE id = ?
delete_rows(table, expense_id) == SelectSeq(table, LAMBDA r : r.id # expense_id)
\* c.rowcount of that DELETE
delete_rowcount(table, expense_id) == Len(table) - Len(delete_rows(table, expense_id))

\* the same sort without reverse=True
RECURSIVE sort_asc(_)
sort_asc(totals) ==
  IF totals = <<>> THEN <<>>
  ELSE LET rest == sort_asc(SubSeq(totals, 1, Len(totals) - 1))
           x    == totals[Len(totals)]
           k    == Cardinality({i \in 1..Len(rest) : rest[i][2] <= x[2]})
       IN  SubSeq(rest, 1, k) \o <<x>> \o SubSeq(rest, k + 1, Len(rest))

\* list.sort(key=lambda t: (t[1] or 0), reverse=True): descending by sum,
\* pairs of equal sum keeping the order they came in
RECURSIVE sort_desc(_)
sort_desc(totals) ==
  IF totals = <<>> THEN <<>>
  ELSE LET rest == sort_desc(SubSeq(totals, 1, Len(totals) - 1))
           x    == totals[Len(totals)]
           k    == Cardinality({i \in 1..Len(rest) : rest[i][2] >= x[2]})
       IN  SubSeq(rest, 1, k) \o <<x>> \o SubSeq(rest, k + 1, Len(rest))

\* ---------------------------------------------------------------- inputs
\* free-text messages sent to the bot
Messages ==
  { <<"F","o","o","d"," ","2","5","0","0"," ","L","u","n","c","h">>,
    <<"f","o","o","d"," ","1","0">>,
    <<"F","O","O","D"," "," ","+","+","5"," ">>,
    <<"G","a","s"," ","$","2","0">>,
    <<"F","o","o","d">>,
    <<"G","a","s"," ","a","b","c">>,
    <<" ">> }
\* the message sent again and again as time passes
PeriodMessages == { <<"G","a","s"," ","$","2","0">> }
\* the messages of the start-up specification
LockMessages == { <<"G","a","s"," ","$","2","0">>, <<"F","o","o","d">> }

\* context.args of /delete: none, a word, or an id
DeleteArgs ==
  { <<>>, << <<"a","b","c">> >> } \cup { << <<Digits[n + 1]>> >> : n \in 0..MaxId }

CallbackData == {"clear_confirm", "clear_cancel"}

\* the characters amount tokens are built from
TokenChars == {"+", "-", "5", "0", ",", ".", "a", "$"}
RECURSIVE TokensOfLen(_)
TokensOfLen(n) ==
  IF n = 0 THEN {<<>>}
  ELSE {Append(t, c) : t \in TokensOfLen(n - 1), c \in TokenChars}
Tokens == UNION {TokensOfLen(n) : n \in 0..MaxTokenLen}

\* ------------------------------------------------------------------ Init
NoReply == [op |-> "none"]
Idle == [state |-> "idle"]
Pending == [state |-> "pending"]

StoreInit ==
  /\ rows = <<>>
  /\ seq = 0
  /\ now = [day |-> 1, sec |-> 0]
  /\ prompts = 0
  /\ reply = NoReply
  /\ issued = {}

ParseIdle ==
  /\ amountToken = <<>>
  /\ parsed = Idle

\* every process about to call main(), on an empty data directory
LockInit ==
  /\ pc = [p \in Procs |-> "start"]
  /\ lockHolder = 0
  /\ lockFile = 0
  /\ tableExists = FALSE
  /\ StoreInit
  /\ ParseIdle

\* process 1 has come through main() and polls; the others were not started
Init ==
  /\ pc = [p \in Procs |-> IF p = 1 THEN "polling" ELSE "start"]
  /\ lockHolder = 1
  /\ lockFile = 1
  /\ tableExists = TRUE
  /\ StoreInit
  /\ ParseIdle

ParseInit ==
  /\ pc = [p \in Procs |-> "start"]
  /\ lockHolder = 0
  /\ lockFile = 0
  /\ tableExists = FALSE
  /\ StoreInit
  /\ amountToken \in Tokens
  /\ parsed = Pending

\* ---------------------------------------------------------------- main()
\* acquire_singleton_lock, open(LOCK_PATH, "w"): creates or truncates the file
open_lock(p) ==
  /\ pc[p] = "start"
  /\ pc' = [pc EXCEPT ![p] = "opened"]
  /\ lockFile' = 0
  /\ UNCHANGED <<lockHolder, tableExists, rows, seq, now, prompts, reply, issued, parseVars>>

flock_shared(p) ==
  /\ pc[p] = "opened"
  /\ pc' = [pc EXCEPT ![p] = "locked"]
  /\ lockHolder' = p
  /\ lockFile' = p
  /\ UNCHANGED <<tableExists, rows, seq, now, prompts, reply, issued, parseVars>>

\* acquire_singleton_lock, flock(LOCK_EX | LOCK_NB): the lock and the pid
\* written, or BlockingIOError and SystemExit(1)
flock(p) ==
  /\ pc[p] = "opened"
  /\ IF lockHolder = 0
     THEN /\ pc' = [pc EXCEPT ![p] = "locked"]
          /\ lockHolder' = p
          /\ lockFile' = p
     ELSE /\ pc' = [pc EXCEPT ![p] = "exit1"]
          /\ UNCHANGED <<lockHolder, lockFile>>
  /\ UNCHANGED <<tableExists, rows, seq, now, prompts, reply, issued, parseVars>>

\* ensure_db(): CREATE TABLE IF NOT EXISTS; then the handlers are registered
\* and polling starts
ensure_db(p) ==
  /\ pc[p] = "locked"
  /\ pc' = [pc EXCEPT ![p] = "polling"]
  /\ tableExists' = TRUE
  /\ UNCHANGED <<lockHolder, lockFile, rows, seq, now, prompts, reply, issued, parseVars>>

\* up.idle() returns on a signal and the process ends; the kernel drops its
\* flock with the file handle
idle_returns(p) ==
  /\ pc[p] = "polling"
  /\ pc' = [pc EXCEPT ![p] = "stopped"]
  /\ lockHolder' = IF lockHolder = p THEN 0 ELSE lockHolder
  /\ UNCHANGED <<lockFile, tableExists, rows, seq, now, prompts, reply, issued, parseVars>>

\* ------------------------------------------------------------- handlers
\* a handler runs in the process that polls, on the table ensure_db made
Handling(p) == pc[p] = "polling" /\ tableExists

category_key_raw(word) == strip(word)
\* parts[0].lower().strip()
category_key(word) == strip(lower(word))

text_entry_zero_amount(text) ==
  LET parts == split_none_2(strip(text))
  IN  IF Len(parts) < 2 THEN [ok |-> FALSE, error |-> "usage"]
      ELSE [ok |-> TRUE, category |-> category_key(parts[1]),
            amount |-> IF IsError(parse_amount(parts[2])) THEN 0
                       ELSE parse_amount(parts[2]).value,
            note |-> IF Len(parts) > 2 THEN parts[3] ELSE <<>>]

\* text_router(u, c) up to the insert: the entry the text asks for, or the
\* reply that turns it down
text_entry(text) ==
  LET parts == split_none_2(strip(text))
  IN  IF Len(parts) < 2 THEN [ok |-> FALSE, error |-> "usage"]
      ELSE IF IsError(parse_amount(parts[2])) THEN [ok |-> FALSE, error |-> "amount"]
      ELSE [ok |-> TRUE, category |-> category_key(parts[1]),
            amount |-> parse_amount(parts[2]).value,
            note |-> IF Len(parts) > 2 THEN parts[3] ELSE <<>>]

\* text_entry of every message sent, computed once
TextEntries ==
  [text \in Messages \cup PeriodMessages \cup LockMessages |-> text_entry(text)] @@ <<>>

\* text_router(u, c) on u.message.text = text
text_router(p, text) ==
  /\ Handling(p)
  /\ LET entry == TextEntries[text]
     IN  IF ~entry.ok
         THEN /\ reply' = [op |-> "text", ok |-> FALSE, error |-> entry.error]
              /\ UNCHANGED <<rows, seq, issued>>
         ELSE LET exp_id == autoincrement_rowid(rows, seq)
              IN  /\ exp_id <= MaxId
                  /\ rows' = log_expense_to_db(rows, exp_id, entry.category, entry.amount,
                                               entry.note, strftime(now))
                  /\ seq' = exp_id
                  /\ issued' = issued \cup {exp_id}
                  /\ reply' = [op |-> "text", ok |-> TRUE, id |-> exp_id,
                               cat_sum |-> get_category_sum_all(rows', entry.category)]
  /\ UNCHANGED <<procVars, now, prompts, parseVars>>

delete_succeeded_rowcount_ge_0(table, expense_id) == delete_rowcount(table, expense_id) >= 0
\* delete_expense_by_id_global's return value: c.rowcount > 0
delete_succeeded(table, expense_id) == delete_rowcount(table, expense_id) > 0

\* delete_command(u, c) with c.args = args
delete_command(p, args) ==
  /\ Handling(p)
  /\ IF args = <<>>
     THEN /\ reply' = [op |-> "delete", ok |-> FALSE, error |-> "usage"]
          /\ UNCHANGED rows
     ELSE LET exp_id == int(args[1])
          IN  IF IsError(exp_id)
              THEN /\ reply' = [op |-> "delete", ok |-> FALSE, error |-> "invalid"]
                   /\ UNCHANGED rows
              ELSE /\ rows' = delete_rows(rows, exp_id.value)
                   /\ reply' = [op |-> "delete", id |-> exp_id.value,
                                ok |-> delete_succeeded(rows, exp_id.value)]
  /\ UNCHANGED <<procVars, seq, now, prompts, issued, parseVars>>

\* clear_command(u, c): sends the Confirm / Cancel keyboard
clear_command(p) ==
  /\ Handling(p)
  /\ prompts < MaxPrompts
  /\ prompts' = prompts + 1
  /\ reply' = [op |-> "clear", ok |-> TRUE]
  /\ UNCHANGED <<procVars, rows, seq, now, issued, parseVars>>

\* clear_all_data(): DELETE FROM expenses; sqlite_sequence is left as it is
clear_all_data(table) == <<>>

\* clear_callback(u, c) with q.data = data; the edit removes the keyboard
clear_callback(p, data) ==
  /\ Handling(p)
  /\ prompts > 0
  /\ prompts' = prompts - 1
  /\ IF data = "clear_confirm"
     THEN /\ rows' = clear_all_data(rows)
          /\ reply' = [op |-> "clear_confirm", ok |-> TRUE]
     ELSE /\ UNCHANGED rows
          /\ reply' = [op |-> "clear_cancel", ok |-> TRUE]
  /\ UNCHANGED <<procVars, seq, now, issued, parseVars>>

\* sum_all(u, c)
sum_all(p) ==
  /\ Handling(p)
  /\ \E fetched \in Orderings(get_totals_all(rows, <<>>, <<>>)) :
       reply' = [op |-> "sum", ok |-> TRUE, totals |-> sort_desc(fetched)]
  /\ UNCHANGED <<procVars, rows, seq, now, prompts, issued, parseVars>>

\* _period_summary_core(update, context, title, start, end)
period_summary_core(title, start, end) ==
  \E fetched \in Orderings(get_totals_all(rows, strftime(start), strftime(end))) :
    reply' = [op |-> title, ok |-> TRUE, start |-> start, end |-> end,
              totals |-> sort_desc(fetched)]

today(p) ==
  /\ Handling(p)
  /\ period_summary_core("today", midnight(now), now)
  /\ UNCHANGED <<procVars, rows, seq, now, prompts, issued, parseVars>>

week(p) ==
  /\ Handling(p)
  /\ period_summary_core("week", midnight(minus_days(now, weekday(now))), now)
  /\ UNCHANGED <<procVars, rows, seq, now, prompts, issued, parseVars>>

month(p) ==
  /\ Handling(p)
  /\ period_summary_core("month", first_of_month(now), now)
  /\ UNCHANGED <<procVars, rows, seq, now, prompts, issued, parseVars>>

\* top_command(update, context): the summary text of the charts
top_command(p) ==
  /\ Handling(p)
  /\ \E data \in get_categories_with_sums_all(rows) :
       reply' = [op |-> "top", ok |-> TRUE, totals |-> data]
  /\ UNCHANGED <<procVars, rows, seq, now, prompts, issued, parseVars>>

\* time passes between two messages
Tick ==
  /\ \E t \in Times : Before(now, t) /\ now' = t
  /\ UNCHANGED <<procVars, rows, seq, prompts, reply, issued, parseVars>>

\* parse_amount applied to the token under test
ParseStep ==
  /\ parsed = Pending
  /\ parsed' = parse_amount(amountToken)
  /\ UNCHANGED <<procVars, rows, seq, now, prompts, reply, issued, amountToken>>

\* ----------------------------------------------------------- specifications
Next ==
  \/ \E p \in Procs, text \in Messages : text_router(p, text)
  \/ \E p \in Procs, args \in DeleteArgs : delete_command(p, args)
  \/ \E p \in Procs : clear_command(p)
  \/ \E p \in Procs, data \in CallbackData : clear_callback(p, data)
  \/ \E p \in Procs : sum_all(p)
  \/ \E p \in Procs : today(p)
  \/ \E p \in Procs : week(p)
  \/ \E p \in Procs : month(p)
  \/ \E p \in Procs : top_command(p)

\* the bot serving messages that arrive within one second
Spec == Init /\ [][Next]_vars

PeriodNext ==
  \/ \E p \in Procs, text \in PeriodMessages : text_router(p, text)
  \/ \E p \in Procs : sum_all(p)
  \/ \E p \in Procs : today(p)
  \/ \E p \in Procs : week(p)
  \/ \E p \in Procs : month(p)
  \/ Tick

\* the bot serving messages as time passes
PeriodSpec == Init /\ [][PeriodNext]_vars

LockNext ==
  \/ \E p \in Procs : open_lock(p)
  \/ \E p \in Procs : flock(p)
  \/ \E p \in Procs : ensure_db(p)
  \/ \E p \in Procs : idle_returns(p)
  \/ \E p \in Procs, text \in LockMessages : text_router(p, text)
  \/ \E p \in Procs, args \in DeleteArgs : delete_command(p, args)

\* processes started against one data directory
LockSpec == LockInit /\ [][LockNext]_vars

ParseNext == ParseStep

\* parse_amount on every token up to MaxTokenLen characters
ParseSpec == ParseInit /\ [][ParseNext]_vars

\* ------------------------------------------------------------------ claims
\* the whitespace-separated fields of a message, the third being the remainder
Fields(text) == split_none_2(strip(text))
IsDigitString(s) == s # <<>> /\ \A i \in 1..Len(s) : IsDigitChar(s[i])
IsLetterString(s) ==
  s # <<>> /\ \A i \in 1..Len(s) : s[i] \in DOMAIN LowerOf \cup Range(LowerChars)
Signs == {"+", "-"}
RowIds(table) == {table[i].id : i \in 1..Len(table)}
food == <<"f", "o", "o", "d">>
gas == <<"g", "a", "s">>

\* the messages of the form '<category> <N> [note]', N a string of digits
DigitAmountMessages ==
  {text \in Messages : Len(Fields(text)) >= 2 /\ IsDigitString(Fields(text)[2])}

\* C1: for every message '<category> <N> [note]' with N a string of decimal
\* digits, text_router stores exactly one new entry: category the lower-cased
\* first field, amount the integer N denotes, note the remainder (empty when
\* absent).
C1_DigitAmountStoredExactly ==
  [][\A p \in Procs, text \in DigitAmountMessages :
       (reply'.op = "text" /\ text_router(p, text))
       => /\ Len(rows') = Len(rows) + 1
          /\ SubSeq(rows', 1, Len(rows)) = rows
          /\ rows'[Len(rows')].category = lower(Fields(text)[1])
          /\ rows'[Len(rows')].amount = DigitsValue(Fields(text)[2]) * Scale
          /\ rows'[Len(rows')].note =
               (IF Len(Fields(text)) > 2 THEN Fields(text)[3] ELSE <<>>)]_vars

\* a message text_router turns down: fewer than two fields, or an amount
\* token parse_amount fails on
Rejected(text) == Len(Fields(text)) < 2 \/ IsError(parse_amount(Fields(text)[2]))
RejectedMessages == {text \in Messages : Rejected(text)}

\* C2: a rejected message performs no insert: the stored entries and the next
\* id to be assigned are the same after the message as before it.
C2_RejectedNeverStored ==
  [][\A p \in Procs, text \in RejectedMessages :
       (reply'.op = "text" /\ text_router(p, text))
       => /\ rows' = rows
          /\ seq' = seq
          /\ autoincrement_rowid(rows', seq') = autoincrement_rowid(rows, seq)
          /\ ~reply'.ok]_vars

\* an amount was refused while the store held entries
C2_Witness ==
  /\ reply.op = "text"
  /\ ~reply.ok
  /\ reply.error = "amount"
  /\ rows # <<>>

\* the empty token, a token of letters only, a token with more than one
\* leading sign
InvalidToken(t) ==
  \/ t = <<>>
  \/ IsLetterString(t)
  \/ (Len(t) >= 2 /\ t[1] \in Signs /\ t[2] \in Signs)

\* C3: for every invalid amount token parse_amount yields the ValueError and
\* never a number.
C3_InvalidTokenIsError ==
  (parsed \notin {Idle, Pending} /\ InvalidToken(amountToken)) => IsError(parsed)

\* C4: an id an insert once returned is never returned by a later insert,
\* whatever deletes and clears came between (no clear of the code resets the
\* sequence).
C4_IdNeverReused ==
  [][Len(rows') > Len(rows)
     => /\ reply'.op = "text"
        /\ reply'.ok
        /\ reply'.id \notin issued
        /\ reply'.id \notin RowIds(rows)
        /\ rows' = Append(rows, rows'[Len(rows')])
        /\ rows'[Len(rows')].id = reply'.id]_vars

\* the store was emptied after ids 1..MaxId-1 were given, and the next
\* insert was given MaxId
C4_Witness ==
  /\ reply.op = "text"
  /\ reply.ok
  /\ reply.id = MaxId
  /\ RowIds(rows) = {MaxId}
  /\ issued = 1..MaxId

\* C5: /delete <id> reports success exactly when a row with that id is stored
\* at the call; a delete of an absent id changes no entry and is answered
\* with "not found"; a second delete of the same id is answered with "not
\* found".
C5_DeleteReportsPresence ==
  [][\A p \in Procs, args \in DeleteArgs :
       (reply'.op = "delete" /\ delete_command(p, args)
        /\ args # <<>> /\ ~IsError(int(args[1])))
       => LET asked == int(args[1]).value
          IN  /\ reply'.ok = (asked \in RowIds(rows))
              /\ reply'.id = asked
              /\ "error" \notin DOMAIN reply'
              /\ asked \notin RowIds(rows')
              /\ asked \notin RowIds(rows) => rows' = rows
              /\ \A i \in 1..Len(rows) :
                   rows[i].id # asked => \E j \in 1..Len(rows') : rows'[j] = rows[i]
              /\ Len(rows') >= Len(rows) - 1
              /\ (reply.op = "delete" /\ reply.ok /\ reply.id = asked) => ~reply'.ok]_vars

\* an id that was given out is asked for again after its row is gone, other
\* rows being stored: "not found"
C5_Witness ==
  /\ reply.op = "delete"
  /\ ~reply.ok
  /\ "error" \notin DOMAIN reply
  /\ reply.id \in issued
  /\ reply.id \notin RowIds(rows)
  /\ rows # <<>>

\* C6: the insert that follows a confirmed /clear is assigned id 1.
C6_ClearThenInsertGivesOne ==
  [][\A p \in Procs, text \in Messages :
       (reply.op = "clear_confirm" /\ reply'.op = "text" /\ reply'.ok
        /\ text_router(p, text))
       => reply'.id = 1]_vars

SortedDesc(t) == \A i \in 1..(Len(t) - 1) : t[i][2] >= t[i + 1][2]
\* the datetime a stored timestamp was formatted from
TimeOf(stamp) == CHOOSE t \in Times : strftime(t) = stamp
IdsWithin(table, start, end) ==
  {table[i].id : i \in {j \in 1..Len(table) :
     NotAfter(start, TimeOf(table[j].timestamp)) /\ NotAfter(TimeOf(table[j].timestamp), end)}}
\* the Expense amounts of category c among the rows with an id in ids
RECURSIVE CategoryTotal(_, _, _)
CategoryTotal(table, c, ids) ==
  IF table = <<>> THEN 0
  ELSE (IF Head(table).entry_type = "Expense" /\ Head(table).category = c
           /\ Head(table).id \in ids
        THEN Head(table).amount ELSE 0) + CategoryTotal(Tail(table), c, ids)
\* t lists each category of the rows in ids once, with its total
TotalsRight(t, table, ids) ==
  /\ {t[i][1] : i \in 1..Len(t)} =
       {table[i].category : i \in {j \in 1..Len(table) : table[j].id \in ids}}
  /\ \A i, j \in 1..Len(t) : t[i][1] = t[j][1] => i = j
  /\ \A i \in 1..Len(t) : t[i][2] = CategoryTotal(table, t[i][1], ids)

\* C7: the category totals /sum and the period summaries show are in
\* non-increasing order of their sum, each sum the total of the Expense
\* amounts of that category.
C7_TotalsSortedDescending ==
  [][\A p \in Procs :
       /\ (reply'.op = "sum" /\ sum_all(p))
          => /\ SortedDesc(reply'.totals)
             /\ TotalsRight(reply'.totals, rows, RowIds(rows))
       /\ (reply'.op \in {"today", "week", "month"} /\ (today(p) \/ week(p) \/ month(p)))
          => /\ SortedDesc(reply'.totals)
             /\ TotalsRight(reply'.totals, rows,
                            IdsWithin(rows, reply'.start, reply'.end))]_vars

\* after (food,10), (food,5), (gas,20): /sum answers [(gas,20), (food,15)]
C7_Witness ==
  /\ reply.op = "sum"
  /\ Len(rows) = 3
  /\ <<rows[1].category, rows[1].amount>> = <<food, 10 * Scale>>
  /\ <<rows[2].category, rows[2].amount>> = <<food, 5 * Scale>>
  /\ <<rows[3].category, rows[3].amount>> = <<gas, 20 * Scale>>
  /\ reply.totals = << <<gas, 20 * Scale>>, <<food, 15 * Scale>> >>

\* the datetimes the clock visits, by the timestamp strftime writes for them
TimeOfStamp == [stamp \in {strftime(t) : t \in Times} |-> TimeOf(stamp)]
\* the table without its i-th row
WithoutRow(table, i) == SubSeq(table, 1, i - 1) \o SubSeq(table, i + 1, Len(table))
\* the rows whose removal changes the totals of the window: those that
\* contribute to them
Contributors(table, start_dt, end_dt) ==
  LET all == get_totals_all(table, start_dt, end_dt)
  IN  {i \in 1..Len(table) : get_totals_all(WithoutRow(table, i), start_dt, end_dt) # all}

\* C8: an entry with timestamp t contributes to get_totals_all(start, end)
\* exactly when start <= t <= end, and every entry contributes when the
\* window is omitted.
C8_WindowInclusive ==
  [][rows' # rows
     => /\ Contributors(rows', <<>>, <<>>) = 1..Len(rows')
        /\ \A start, end \in Times :
             Contributors(rows', strftime(start), strftime(end))
             = {i \in 1..Len(rows') : /\ NotAfter(start, TimeOfStamp[rows'[i].timestamp])
                                      /\ NotAfter(TimeOfStamp[rows'[i].timestamp], end)}]_vars

\* /today with one entry of the day before, one stamped exactly at the start
\* of the window and one exactly at its end: the last two are summed
C8_Witness ==
  /\ reply.op = "today"
  /\ reply.end = now
  /\ Len(rows) = 3
  /\ Before(TimeOf(rows[1].timestamp), reply.start)
  /\ rows[2].timestamp = strftime(reply.start)
  /\ rows[3].timestamp = strftime(reply.end)
  /\ Before(reply.start, reply.end)
  /\ reply.totals = << <<gas, 40 * Scale>> >>

\* the processes past acquire_singleton_lock
PastLock == {p \in Procs : pc[p] \in {"locked", "polling"}}

\* C9: at most one process at a time is past acquire_singleton_lock; a process
\* that attempts the lock while another holds it ends at once with exit
\* status 1, neither waiting nor trying again, and never touches the store,
\* which changes only under the hand of the lock's holder.
C9_SingleInstance ==
  [][/\ Cardinality(PastLock') <= 1
     /\ \A p \in PastLock' : lockHolder' = p
     /\ \A p \in Procs :
          /\ (pc[p] = "opened" /\ lockHolder \notin {0, p} /\ pc'[p] # pc[p])
             => pc'[p] = "exit1"
          /\ (pc'[p] = "exit1" /\ pc[p] # "exit1")
             => /\ pc[p] = "opened"
                /\ lockHolder \notin {0, p}
                /\ UNCHANGED <<lockHolder, tableExists, rows, seq>>
          /\ pc[p] = "exit1" => pc'[p] = "exit1"
     /\ <<tableExists, rows, seq>>' # <<tableExists, rows, seq>>
        => \E p \in PastLock : lockHolder = p /\ pc'[p] = "polling"]_vars

\* one process polls and has stored an entry, another has left with status 1
C9_Witness ==
  \E p, q \in Procs :
    /\ pc[p] = "polling"
    /\ lockHolder = p
    /\ pc[q] = "exit1"
    /\ rows # <<>>

\* C10: get_totals_all and get_categories_with_sums_all never return two rows
\* whose categories are equal ignoring case, and the total of a category is
\* get_category_sum_all of its lower-cased name.
C10_CaseInsensitiveGroups ==
  /\ \A a, b \in get_totals_all(rows, <<>>, <<>>) : lower(a[1]) = lower(b[1]) => a = b
  /\ \A a \in get_totals_all(rows, <<>>, <<>>) :
       a[2] = get_category_sum_all(rows, lower(a[1]))
  /\ \A data \in get_categories_with_sums_all(rows) :
       \A i, j \in 1..Len(data) :
         /\ lower(data[i][1]) = lower(data[j][1]) => i = j
         /\ data[i][2] = get_category_sum_all(rows, lower(data[i][1]))

\* entries sent as Food, food and FOOD are summed into one group
C10_Witness ==
  /\ reply.op = "sum"
  /\ Len(rows) = 3
  /\ {rows[i].amount : i \in 1..3} = {250 * Scale, 10 * Scale, 5 * Scale}
  /\ reply.totals = << <<food, 265 * Scale>> >>

====
